---- MODULE Spec2Model ----
(***************************************************************************)
(* Federation synchronisation of SampleDB: one local instance importing   *)
(* the exports of one peer component (sampledb/logic/federation/update.py *)
(* driven by the "sync" form of sampledb/frontend/federation.py).         *)
(***************************************************************************)
EXTENDS Integers, Sequences, FiniteSets, TLC

(* ------------------------------------------------------------------ *)
(* Bounds of the model                                                 *)
(* ------------------------------------------------------------------ *)
\* number of sync requests (rounds) served in one behaviour
MaxRounds == 2
\* largest value of the utcnow() clock
MaxClock == 2
\* largest number of records in the payloads of the update_shares specification
MaxRecs == 3
\* largest number of location records in a payload of the location specification
MaxLocs == 3
\* largest major / minor number of a protocol_version
MaxVersion == 2
\* largest number of components added through the form
MaxComponents == 1

(* ------------------------------------------------------------------ *)
(* Program constants                                                   *)
(* ------------------------------------------------------------------ *)
PROTOCOL_VERSION_MAJOR == 0
PROTOCOL_VERSION_MINOR == 1

\* request-handling threads of the web server (each serves one request at a time)
Threads == {"t1", "t2"}

\* datetime values are clock ticks; NoTimestamp stands for None
NoTimestamp == 0 - 1

\* uuid of the peer component and of some other database
PeerUUID == "Y"
OtherUUID == "X"

\* entity collections of a payload, in the order update_shares applies them
Colls == <<"markdown_images", "users", "instruments", "action_types",
           "actions", "location_types", "locations", "objects">>

CollSet == {Colls[i] : i \in 1..Len(Colls)}

\* federation identity (fed_id, component_uuid); NoKey stands for "no parent"
NoKey == <<0, "None">>

(* ------------------------------------------------------------------ *)
(* JSON values                                                         *)
(* ------------------------------------------------------------------ *)
\* a value of the major / minor field of protocol_version:
\*   none    the field is absent (dict.get gives None)
\*   int     a JSON integer v
\*   intstr  a JSON string holding the decimal digits of v
\*   str     a JSON string that int() rejects with ValueError
\*   list    a JSON array, which int() rejects with TypeError
VNone == [kind |-> "none", v |-> 0]
VInt(n) == [kind |-> "int", v |-> n]
VIntStr(n) == [kind |-> "intstr", v |-> n]
VStr == [kind |-> "str", v |-> 0]
VList == [kind |-> "list", v |-> 0]

PVNone == [kind |-> "none", major |-> VNone, minor |-> VNone]
PV(ma, mi) == [kind |-> "dict", major |-> ma, minor |-> mi]

\* a header: absent (None) or a dict with db_uuid ("None" when absent) and protocol_version
HdrNone == [kind |-> "none", db_uuid |-> "None", protocol_version |-> PVNone]
Hdr(u, pv) == [kind |-> "dict", db_uuid |-> u, protocol_version |-> pv]

HdrOK == Hdr(PeerUUID, PV(VInt(0), VInt(1)))
HdrWrongUUID == Hdr(OtherUUID, PV(VInt(0), VInt(1)))
HdrNoVersion == Hdr(PeerUUID, PVNone)
HdrUnsupported == Hdr(PeerUUID, PV(VInt(0), VInt(2)))

\* a raw record of a collection: ok tells whether its parser accepts it
Rec(i, u, v, good, p) == [id |-> i, uuid |-> u, val |-> v, ok |-> good, parent |-> p]

NoData == [c \in CollSet |-> <<>>]

\* a decoded response body: a JSON object, any other JSON value, or (for a
\* local variable) the absence of a binding
Dict(h, d) == [kind |-> "dict", header |-> h, data |-> d]
NotADict == [kind |-> "list", header |-> HdrNone, data |-> NoData]
Unbound == [kind |-> "unbound", header |-> HdrNone, data |-> NoData]

(* ------------------------------------------------------------------ *)
(* get: mapping of a response to a result                              *)
(* ------------------------------------------------------------------ *)
\* a response: connected or not, status code, JSON body or not
Resp(s, j, b) == [connected |-> TRUE, status |-> s, json |-> j, body |-> b]
ConnectionFailure == [connected |-> FALSE, status |-> 0, json |-> FALSE, body |-> NotADict]

\* post(endpoint, component): the error raised, or "ok" when the request went
\* out; the response is not looked at
post(address, resp) ==
    IF address = "None" THEN "MissingComponentAddressError"
    ELSE IF ~resp.connected THEN "ConnectionError"
    ELSE "ok"

\* variant: get does not look at the address before it sends
get_without_address_check(address, resp) ==
    IF ~resp.connected THEN "ConnectionError"
    ELSE IF resp.status = 401 THEN "UnauthorizedRequestError"
    ELSE IF resp.status \in {500, 501, 502, 503, 504} THEN "RequestServerError"
    ELSE IF ~resp.json THEN "InvalidJSONError"
    ELSE "ok"

\* variant: the body is decoded before the status is looked at
get_decode_first(address, resp) ==
    IF address = "None" THEN "MissingComponentAddressError"
    ELSE IF ~resp.connected THEN "ConnectionError"
    ELSE IF ~resp.json THEN "InvalidJSONError"
    ELSE IF resp.status = 401 THEN "UnauthorizedRequestError"
    ELSE IF resp.status \in {500, 501, 502, 503, 504} THEN "RequestServerError"
    ELSE "ok"

\* get(endpoint, component): the error raised, or "ok" when the body is returned
get(address, resp) ==
    IF address = "None" THEN "MissingComponentAddressError"
    ELSE IF ~resp.connected THEN "ConnectionError"
    ELSE IF resp.status = 401 THEN "UnauthorizedRequestError"
    ELSE IF resp.status \in {500, 501, 502, 503, 504} THEN "RequestServerError"
    ELSE IF ~resp.json THEN "InvalidJSONError"
    ELSE "ok"

(* ------------------------------------------------------------------ *)
(* _validate_header                                                    *)
(* ------------------------------------------------------------------ *)
\* int(x) of the builtin: "ok", "ValueError" or "TypeError"
IntError(x) ==
    CASE x.kind \in {"int", "intstr"} -> "ok"
      [] x.kind = "str" -> "ValueError"
      [] OTHER -> "TypeError"

\* variant: only a newer version is refused (lexicographic comparison)
version_refused_newer_only(major, minor) ==
    \/ major > PROTOCOL_VERSION_MAJOR
    \/ (major = PROTOCOL_VERSION_MAJOR /\ minor > PROTOCOL_VERSION_MINOR)

\* the comparison of the converted (major, minor) with the supported version
version_refused(major, minor) ==
    \/ major > PROTOCOL_VERSION_MAJOR
    \/ (major <= PROTOCOL_VERSION_MAJOR /\ minor > PROTOCOL_VERSION_MINOR)

\* the checks of header.get('protocol_version')
validate_protocol_version(pv) ==
    IF pv.kind = "none" THEN "InvalidDataExportError"
    ELSE LET major == pv.major
             minor == pv.minor
         IN  IF major.kind = "none" \/ minor.kind = "none" THEN "InvalidDataExportError"
             ELSE IF IntError(major) = "ValueError" THEN "InvalidDataExportError"
             ELSE IF IntError(major) = "TypeError" THEN "TypeError"
             ELSE IF IntError(minor) = "ValueError" THEN "InvalidDataExportError"
             ELSE IF IntError(minor) = "TypeError" THEN "TypeError"
             ELSE IF version_refused(major.v, minor.v) THEN "InvalidDataExportError"
                  ELSE "ok"

\* variant: the protocol version is checked before the db_uuid
_validate_header_version_first(header, uuid) ==
    IF header.kind = "none" THEN "ok"
    ELSE IF validate_protocol_version(header.protocol_version) # "ok"
         THEN validate_protocol_version(header.protocol_version)
    ELSE IF header.db_uuid # uuid THEN "InvalidDataExportError"
    ELSE "ok"

_validate_header(header, uuid) ==
    IF header.kind = "none" THEN "ok"
    ELSE IF header.db_uuid # uuid THEN "InvalidDataExportError"
    ELSE validate_protocol_version(header.protocol_version)

\* _get_dict(updates, mandatory=True) followed by _validate_header(updates.get('header'), component)
ValidatePayload(updates, uuid) ==
    IF updates.kind # "dict" THEN "InvalidDataExportError"
    ELSE _validate_header(updates.header, uuid)

(* ------------------------------------------------------------------ *)
(* Parsers                                                             *)
(* ------------------------------------------------------------------ *)
\* parse_<entity>: the canonical record of an accepted raw record
parse_record(r) ==
    [fed_id |-> r.id, component_uuid |-> r.uuid, val |-> r.val, parent |-> r.parent]

KeyOf(p) == <<p.fed_id, p.component_uuid>>

\* index of the first record of a collection that its parser rejects, 0 when none
RECURSIVE FirstBad(_, _)
FirstBad(recs, k) ==
    IF k > Len(recs) THEN 0
    ELSE IF ~recs[k].ok THEN k
    ELSE FirstBad(recs, k + 1)

\* locations[(location['fed_id'], location['component_uuid'])] = location on an
\* insertion-ordered dict: a repeated key keeps its place and takes the new value
DictPut(d, p) ==
    IF \E i \in 1..Len(d) : KeyOf(d[i]) = KeyOf(p)
    THEN [i \in 1..Len(d) |-> IF KeyOf(d[i]) = KeyOf(p) THEN p ELSE d[i]]
    ELSE Append(d, p)

RECURSIVE ParseList(_, _, _, _)
ParseList(coll, recs, k, acc) ==
    IF k > Len(recs) THEN acc
    ELSE ParseList(coll, recs, k + 1,
                   IF coll = "locations" THEN DictPut(acc, parse_record(recs[k]))
                   ELSE Append(acc, parse_record(recs[k])))

(* ------------------------------------------------------------------ *)
(* Location graph                                                      *)
(* ------------------------------------------------------------------ *)
DictKeys(d) == {KeyOf(d[i]) : i \in 1..Len(d)}
DictGet(d, key) == d[CHOOSE i \in 1..Len(d) : KeyOf(d[i]) = key]

\* follows the parent pointers from key inside the batch; TRUE when a key
\* already on the path is met again
RECURSIVE PathRevisits(_, _, _)
PathRevisits(d, key, path) ==
    IF key \in path THEN TRUE
    ELSE LET p == DictGet(d, key).parent
         IN  IF p \in DictKeys(d) THEN PathRevisits(d, p, path \cup {key})
             ELSE FALSE

locations_check_for_cyclic_dependencies(d) ==
    IF \E key \in DictKeys(d) : PathRevisits(d, key, {})
    THEN "CyclicLocationError" ELSE "ok"

\* import_location(location, component, locations, users): the keys it imports,
\* in order: the pending ancestors of key from the outermost one down to key
RECURSIVE ImportChain(_, _, _)
ImportChain(d, key, seen) ==
    LET p == DictGet(d, key).parent
    IN  IF p \in DictKeys(d) /\ p \notin seen /\ p # key
        THEN ImportChain(d, p, seen \cup {key}) \o <<key>>
        ELSE <<key>>

(* ------------------------------------------------------------------ *)
(* Local entities                                                      *)
(* ------------------------------------------------------------------ *)
\* rows of the entity tables: type is the collection, (fed_id, component_uuid)
\* the federation identity, id the local primary key
Matches(store, coll, p) ==
    {row \in store : row.type = coll /\ row.fed_id = p.fed_id
                     /\ row.component_uuid = p.component_uuid}

NewRow(store, coll, p) ==
    [type |-> coll, fed_id |-> p.fed_id, component_uuid |-> p.component_uuid,
     val |-> p.val, id |-> Cardinality(store) + 1]

\* ADD CONSTRAINT action_types_fed_id_component_id_key UNIQUE(fed_id, component_id):
\* TRUE when the table accepts the new row
UniqueFedKey(store, row) ==
    row.type = "action_types" =>
        ~\E other \in store : other.type = row.type /\ other.fed_id = row.fed_id
                              /\ other.component_uuid = row.component_uuid

\* variant: every import creates a new entity
import_entity_always_create(store, coll, p) ==
    IF UniqueFedKey(store, NewRow(store, coll, p))
    THEN store \cup {NewRow(store, coll, p)}
    ELSE store

\* import_<entity>(data, component): find by federation identity, create the
\* entity when there is none, otherwise update its fields; never deletes
import_entity(store, coll, p) ==
    IF Matches(store, coll, p) = {}
    THEN IF UniqueFedKey(store, NewRow(store, coll, p))
         THEN store \cup {NewRow(store, coll, p)}
         ELSE store
    ELSE {IF row \in Matches(store, coll, p) THEN [row EXCEPT !.val = p.val] ELSE row
          : row \in store}

RECURSIVE import_all(_, _, _)
import_all(store, coll, ps) ==
    IF ps = <<>> THEN store
    ELSE import_all(import_entity(store, coll, Head(ps)), coll, Tail(ps))

(* ------------------------------------------------------------------ *)
(* Steps of import_updates, update_users and update_shares             *)
(* ------------------------------------------------------------------ *)
Step(o, c) == [op |-> o, coll |-> c]

\* variant: the watermark is stored before the payloads are applied
import_updates_steps_watermark_first ==
    <<"update_last_sync_timestamp", "update_users", "update_shares">>

\* the calls of import_updates after the two fetches
\* variant: update_shares is called before update_users
import_updates_steps_shares_first ==
    <<"update_shares", "update_users", "update_last_sync_timestamp">>

import_updates_steps ==
    <<"update_users", "update_shares", "update_last_sync_timestamp">>

\* variant: update_users parses the users before it validates the header
update_users_steps_validate_late ==
    <<Step("parse", "users"), Step("validate", "header"), Step("import", "users")>>

update_users_steps ==
    <<Step("validate", "header"), Step("parse", "users"), Step("import", "users")>>

\* variant: the markdown images are imported as soon as they are parsed
update_shares_steps_import_images_early ==
    <<Step("validate", "header"),
      Step("parse", "markdown_images"), Step("import", "markdown_images"),
      Step("parse", "users"),
      Step("parse", "instruments"), Step("parse", "action_types"),
      Step("parse", "actions"), Step("parse", "location_types"),
      Step("parse", "locations"), Step("cycle_check", "locations"),
      Step("parse", "objects"),
      Step("import", "users"),
      Step("import", "instruments"), Step("import", "action_types"),
      Step("import", "actions"), Step("import", "location_types"),
      Step("import", "locations"), Step("import", "objects")>>

\* variant: the objects are parsed only when their turn to be imported comes
update_shares_steps_parse_objects_late ==
    <<Step("validate", "header"),
      Step("parse", "markdown_images"), Step("parse", "users"),
      Step("parse", "instruments"), Step("parse", "action_types"),
      Step("parse", "actions"), Step("parse", "location_types"),
      Step("parse", "locations"), Step("cycle_check", "locations"),
      Step("import", "markdown_images"), Step("import", "users"),
      Step("import", "instruments"), Step("import", "action_types"),
      Step("import", "actions"), Step("import", "location_types"),
      Step("import", "locations"),
      Step("parse", "objects"), Step("import", "objects")>>

\* variant: the header is validated after the payload has been applied
update_shares_steps_validate_last ==
    <<Step("parse", "markdown_images"), Step("parse", "users"),
      Step("parse", "instruments"), Step("parse", "action_types"),
      Step("parse", "actions"), Step("parse", "location_types"),
      Step("parse", "locations"), Step("cycle_check", "locations"),
      Step("parse", "objects"),
      Step("import", "markdown_images"), Step("import", "users"),
      Step("import", "instruments"), Step("import", "action_types"),
      Step("import", "actions"), Step("import", "location_types"),
      Step("import", "locations"), Step("import", "objects"),
      Step("validate", "header")>>

\* variant: the cycle check runs right before the locations are imported
update_shares_steps_cycle_check_late ==
    <<Step("validate", "header"),
      Step("parse", "markdown_images"), Step("parse", "users"),
      Step("parse", "instruments"), Step("parse", "action_types"),
      Step("parse", "actions"), Step("parse", "location_types"),
      Step("parse", "locations"),
      Step("parse", "objects"),
      Step("import", "markdown_images"), Step("import", "users"),
      Step("import", "instruments"), Step("import", "action_types"),
      Step("import", "actions"), Step("import", "location_types"),
      Step("cycle_check", "locations"),
      Step("import", "locations"), Step("import", "objects")>>

\* variant: the actions are imported before the action types
update_shares_steps_actions_before_types ==
    <<Step("validate", "header"),
      Step("parse", "markdown_images"), Step("parse", "users"),
      Step("parse", "instruments"), Step("parse", "action_types"),
      Step("parse", "actions"), Step("parse", "location_types"),
      Step("parse", "locations"), Step("cycle_check", "locations"),
      Step("parse", "objects"),
      Step("import", "markdown_images"), Step("import", "users"),
      Step("import", "instruments"), Step("import", "actions"),
      Step("import", "action_types"), Step("import", "location_types"),
      Step("import", "locations"), Step("import", "objects")>>

update_shares_steps ==
    <<Step("validate", "header"),
      Step("parse", "markdown_images"), Step("parse", "users"),
      Step("parse", "instruments"), Step("parse", "action_types"),
      Step("parse", "actions"), Step("parse", "location_types"),
      Step("parse", "locations"), Step("cycle_check", "locations"),
      Step("parse", "objects"),
      Step("import", "markdown_images"), Step("import", "users"),
      Step("import", "instruments"), Step("import", "action_types"),
      Step("import", "actions"), Step("import", "location_types"),
      Step("import", "locations"), Step("import", "objects")>>

Program(fn) ==
    CASE fn = "update_users" -> update_users_steps
      [] fn = "update_shares" -> update_shares_steps
      [] OTHER -> <<>>

\* an entry of the history of a round
Event(o, f, c, i, key) == [op |-> o, fn |-> f, coll |-> c, k |-> i, key |-> key]

ParseEvents(fn, coll, n) == [i \in 1..n |-> Event("parse", fn, coll, i, NoKey)]

\* the steps of a function that touch no shared state (validation, parsing,
\* cycle check), run from position st.pos up to the first failure, the first
\* import that has something to import, or the end of the function
RECURSIVE RunLocal(_, _, _, _)
RunLocal(fn, payload, uuid, st) ==
    IF st.err # "none" \/ st.pos > Len(Program(fn)) THEN st
    ELSE
      LET s == Program(fn)[st.pos]
          next == [st EXCEPT !.pos = st.pos + 1]
      IN  CASE s.op = "validate" ->
                 LET e == ValidatePayload(payload, uuid)
                     logged == Append(st.log, Event("validate", fn, "header", 0, NoKey))
                 IN  IF e # "ok" THEN [st EXCEPT !.err = e, !.log = logged]
                     ELSE RunLocal(fn, payload, uuid, [next EXCEPT !.log = logged])
            [] s.op = "parse" ->
                 LET recs == payload.data[s.coll]
                     bad == FirstBad(recs, 1)
                 IN  IF bad # 0
                     THEN [st EXCEPT !.err = "ParseError",
                                     !.log = st.log \o ParseEvents(fn, s.coll, bad)]
                     ELSE RunLocal(fn, payload, uuid,
                            [next EXCEPT !.parsed[s.coll] = ParseList(s.coll, recs, 1, <<>>),
                                         !.log = st.log \o ParseEvents(fn, s.coll, Len(recs))])
            [] s.op = "cycle_check" ->
                 LET e == locations_check_for_cyclic_dependencies(st.parsed["locations"])
                     logged == Append(st.log, Event("cycle_check", fn, "locations", 0, NoKey))
                 IN  IF e # "ok" THEN [st EXCEPT !.err = e, !.log = logged]
                     ELSE RunLocal(fn, payload, uuid, [next EXCEPT !.log = logged])
            [] OTHER ->
                 IF st.parsed[s.coll] = <<>> THEN RunLocal(fn, payload, uuid, next)
                 ELSE st

(* ------------------------------------------------------------------ *)
(* State                                                               *)
(* ------------------------------------------------------------------ *)
VARIABLES
    clock,            \* datetime.utcnow()
    FEDERATION_UUID,  \* flask.current_app.config['FEDERATION_UUID'], "None" when unset
    component,        \* the peer: uuid, address ("None" when unset), last_sync_timestamp
    store,            \* the local entities
    nrounds,          \* sync requests served so far
    completed,        \* ids of the rounds that returned without raising, in order
    pc,               \* per thread: where its request is
    rid,              \* per thread: id of its round
    timestamp,        \* per thread: local variable of import_updates
    users,            \* per thread: local variable of import_updates
    updates,          \* per thread: local variable of import_updates
    call,             \* per thread: index in import_updates_steps
    pos,              \* per thread: index in the steps of the running function
    parsed,           \* per thread: parsed records not imported yet, per collection
    err,              \* per thread: the error its round raised, "none" otherwise
    log,              \* per thread: history of its round
    before,           \* per thread: watermark and entities when its round started
    fetchedAt,        \* per thread: clock when the first GET of its round was issued
    returnedAt,       \* per thread: clock when its round returned or raised
    ALLOW_HTTP,       \* flask.current_app.config['ALLOW_HTTP']
    own_authentication, \* rows of OwnComponentAuthentication of type TOKEN: component_id, token
    components        \* the addresses of the other rows of the components table, by id - 1

vars == <<clock, FEDERATION_UUID, component, store, nrounds, completed, pc, rid,
          timestamp, users, updates, call, pos, parsed, err, log, before, fetchedAt,
          returnedAt, ALLOW_HTTP, own_authentication, components>>

\* what the sync code only reads: ALLOW_HTTP, the own credentials, the other components
registry == <<ALLOW_HTTP, own_authentication, components>>

shared == <<clock, FEDERATION_UUID, registry, component, store, nrounds, completed>>

\* the function that thread t is running
Fn(t) == import_updates_steps[call[t]]

\* the payload the running function works on
Payload(t) == IF Fn(t) = "update_users" THEN users[t] ELSE updates[t]

(* ------------------------------------------------------------------ *)
(* Responses of the peer                                               *)
(* ------------------------------------------------------------------ *)
User(v) == Rec(1, PeerUUID, v, TRUE, NoKey)
BadRec == Rec(1, PeerUUID, 1, FALSE, NoKey)
Loc(i, p) == Rec(i, PeerUUID, 1, TRUE, <<p, PeerUUID>>)
Root(i) == Rec(i, PeerUUID, 1, TRUE, NoKey)

OnlyUsers(us) == [NoData EXCEPT !["users"] = us]

\* answers to GET /federation/v1/shares/users/
UsersResponses ==
    {Resp(200, TRUE, Dict(HdrOK, OnlyUsers(<<User(v)>>))) : v \in {1, 2}}
    \cup {Resp(200, TRUE, Dict(HdrOK, OnlyUsers(<<User(1), BadRec>>))),
          Resp(200, TRUE, Dict(HdrWrongUUID, OnlyUsers(<<User(1)>>))),
          Resp(200, TRUE, NotADict),
          Resp(200, FALSE, NotADict),
          Resp(401, TRUE, Dict(HdrNone, NoData)),
          Resp(500, FALSE, NotADict),
          ConnectionFailure}

\* one record in every collection, the two locations child first
FullData(v) ==
    [c \in CollSet |->
        IF c = "locations" THEN <<Loc(2, 1), Root(1)>>
        ELSE IF c = "users" THEN <<User(v)>>
        ELSE <<Root(1)>>]

\* answers to GET /federation/v1/shares/objects/
SharesResponses ==
    {Resp(200, TRUE, Dict(HdrOK, FullData(v))) : v \in {1, 2}}
    \cup {Resp(200, TRUE, Dict(HdrOK, OnlyUsers(<<User(v)>>))) : v \in {1, 2}}
    \cup {Resp(200, TRUE, Dict(HdrOK, [FullData(1) EXCEPT !["objects"] = <<BadRec>>])),
          Resp(200, TRUE, Dict(HdrOK, [FullData(1) EXCEPT !["locations"] = <<Loc(1, 2), Loc(2, 1)>>])),
          Resp(200, TRUE, Dict(HdrWrongUUID, FullData(1))),
          Resp(200, TRUE, Dict(HdrNoVersion, FullData(1))),
          Resp(200, TRUE, Dict(HdrUnsupported, FullData(1))),
          Resp(404, TRUE, Dict(HdrNone, NoData)),
          Resp(200, FALSE, NotADict),
          Resp(401, TRUE, Dict(HdrNone, NoData)),
          Resp(503, FALSE, NotADict),
          ConnectionFailure}

(* ------------------------------------------------------------------ *)
(* Initial state                                                       *)
(* ------------------------------------------------------------------ *)
Idle ==
    /\ pc = [t \in Threads |-> "idle"]
    /\ rid = [t \in Threads |-> 0]
    /\ timestamp = [t \in Threads |-> NoTimestamp]
    /\ users = [t \in Threads |-> Unbound]
    /\ updates = [t \in Threads |-> Unbound]
    /\ call = [t \in Threads |-> 1]
    /\ pos = [t \in Threads |-> 1]
    /\ parsed = [t \in Threads |-> NoData]
    /\ err = [t \in Threads |-> "none"]
    /\ log = [t \in Threads |-> <<>>]
    /\ before = [t \in Threads |-> [watermark |-> NoTimestamp, store |-> {}]]
    /\ fetchedAt = [t \in Threads |-> NoTimestamp]
    /\ returnedAt = [t \in Threads |-> NoTimestamp]

Init ==
    /\ clock = 1
    /\ FEDERATION_UUID \in {"None", "L"}
    /\ component \in [id : {1}, uuid : {PeerUUID}, address : {"None", "https://peer"},
                      last_sync_timestamp : {NoTimestamp, 0}]
    /\ ALLOW_HTTP = FALSE
    /\ own_authentication = {}
    /\ components = <<>>
    /\ store = {}
    /\ nrounds = 0
    /\ completed = <<>>
    /\ Idle

(* ------------------------------------------------------------------ *)
(* import_updates                                                      *)
(* ------------------------------------------------------------------ *)
\* the round of thread t raises e
Raise(t, e) ==
    /\ pc' = [pc EXCEPT ![t] = "failed"]
    /\ err' = [err EXCEPT ![t] = e]
    /\ returnedAt' = [returnedAt EXCEPT ![t] = clock]

\* the control state after call c of import_updates has returned
AfterCall(t, c) ==
    IF c < Len(import_updates_steps)
    THEN /\ pc' = [pc EXCEPT ![t] = "run"]
         /\ call' = [call EXCEPT ![t] = c + 1]
         /\ pos' = [pos EXCEPT ![t] = 1]
         /\ parsed' = [parsed EXCEPT ![t] = NoData]
         /\ completed' = completed
         /\ returnedAt' = returnedAt
    ELSE /\ pc' = [pc EXCEPT ![t] = "done"]
         /\ call' = call
         /\ pos' = pos
         /\ parsed' = [parsed EXCEPT ![t] = NoData]
         /\ completed' = Append(completed, rid[t])
         /\ returnedAt' = [returnedAt EXCEPT ![t] = clock]

\* variant: import_updates does not look at the configuration
not_configured_for_federation_never == FALSE

\* flask.current_app.config['FEDERATION_UUID'] is None
not_configured_for_federation == FEDERATION_UUID = "None"

\* a sync request reaches import_updates: configuration check and start timestamp
StartRound(t) ==
    /\ pc[t] \in {"idle", "done", "failed"}
    /\ nrounds < MaxRounds
    /\ nrounds' = nrounds + 1
    /\ rid' = [rid EXCEPT ![t] = nrounds + 1]
    /\ log' = [log EXCEPT ![t] = <<>>]
    /\ before' = [before EXCEPT ![t] = [watermark |-> component.last_sync_timestamp,
                                         store |-> store]]
    /\ users' = [users EXCEPT ![t] = Unbound]
    /\ updates' = [updates EXCEPT ![t] = Unbound]
    /\ call' = [call EXCEPT ![t] = 1]
    /\ pos' = [pos EXCEPT ![t] = 1]
    /\ parsed' = [parsed EXCEPT ![t] = NoData]
    /\ fetchedAt' = [fetchedAt EXCEPT ![t] = NoTimestamp]
    /\ IF not_configured_for_federation
       THEN /\ Raise(t, "ComponentNotConfiguredForFederationError")
            /\ timestamp' = [timestamp EXCEPT ![t] = NoTimestamp]
       ELSE /\ pc' = [pc EXCEPT ![t] = "get_users"]
            /\ err' = [err EXCEPT ![t] = "none"]
            /\ timestamp' = [timestamp EXCEPT ![t] = clock]
            /\ returnedAt' = [returnedAt EXCEPT ![t] = NoTimestamp]
    /\ UNCHANGED <<clock, FEDERATION_UUID, registry, component, store, completed>>

\* what came back for a request: the status and the kind of the body
Answer(resp) ==
    <<resp.status, IF ~resp.connected THEN "none" ELSE IF resp.json THEN "json" ELSE "text">>

\* variant: the first own token is used, whatever component it is stored for
get_own_authentication_any_component(rows, component_id) ==
    IF rows = {} THEN {0} ELSE {a.token : a \in rows}

\* get_own_authentication(component_id, TOKEN): the tokens it may return, one
\* of those stored for the component, or 0 (no credential) when there is none
get_own_authentication(rows, component_id) ==
    IF \E a \in rows : a.component_id = component_id
    THEN {a.token : a \in {b \in rows : b.component_id = component_id}}
    ELSE {0}

\* variant: the GET asks for the updates since the start of the running round
last_sync_parameter_round_start(t) == timestamp[t]

\* parameters['last_sync_timestamp'] of a GET (NoTimestamp: omitted)
last_sync_parameter(t) == component.last_sync_timestamp

\* what tells a request apart in the history: the token of its Authorization
\* header (0: no such header) and the address it goes to
Request(auth, address) == <<auth, address>>

\* variant: the request is sent a second time when the answer is an error
Sent_resend_after_error(t, endpoint, resp, auth) ==
    LET r == get(component.address, resp)
        once == <<Event("get", "import_updates", endpoint, last_sync_parameter(t),
                        Request(auth, component.address)),
                  Event(r, "get", endpoint, 0, Answer(resp))>>
    IN  IF r = "MissingComponentAddressError" THEN log[t]
        ELSE IF r = "ok" THEN log[t] \o once
        ELSE log[t] \o once \o once

\* the history entries of a GET: the request, which carries the stored
\* watermark (NoTimestamp: the parameter is omitted), and the outcome of get
\* with what came back; get sends nothing when it raises for a missing address
Sent(t, endpoint, resp, auth) ==
    LET r == get(component.address, resp)
    IN  IF r = "MissingComponentAddressError" THEN log[t]
        ELSE log[t] \o <<Event("get", "import_updates", endpoint,
                               last_sync_parameter(t),
                               Request(auth, component.address)),
                         Event(r, "get", endpoint, 0, Answer(resp))>>

\* variant: a failed users fetch ends the round
users_fetch_ignored_none == {}

\* the errors of the users fetch that import_updates passes over
users_fetch_ignored == {"RequestServerError", "UnauthorizedRequestError"}

\* users = get('/federation/v1/shares/users/', component)
GetUsers(t, responses) ==
    /\ pc[t] = "get_users"
    /\ \E resp \in responses, auth \in get_own_authentication(own_authentication, component.id) :
        LET r == get(component.address, resp)
        IN  /\ log' = [log EXCEPT ![t] = Sent(t, "users", resp, auth)]
            /\ fetchedAt' = [fetchedAt EXCEPT ![t] =
                                IF r = "MissingComponentAddressError" THEN NoTimestamp ELSE clock]
            /\ CASE r = "ok" ->
                      /\ users' = [users EXCEPT ![t] = resp.body]
                      /\ pc' = [pc EXCEPT ![t] = "get_shares"]
                      /\ UNCHANGED <<err, returnedAt>>
                 [] r \in users_fetch_ignored ->
                      /\ pc' = [pc EXCEPT ![t] = "get_shares"]
                      /\ UNCHANGED <<users, err, returnedAt>>
                 [] r = "InvalidJSONError" ->
                      /\ Raise(t, "InvalidDataExportError")
                      /\ UNCHANGED users
                 [] OTHER ->
                      /\ Raise(t, r)
                      /\ UNCHANGED users
    /\ UNCHANGED <<shared, rid, timestamp, updates, call, pos, parsed, before>>

\* updates = get('/federation/v1/shares/objects/', component)
GetShares(t, responses) ==
    /\ pc[t] = "get_shares"
    /\ \E resp \in responses, auth \in get_own_authentication(own_authentication, component.id) :
        LET r == get(component.address, resp)
        IN  /\ log' = [log EXCEPT ![t] = Sent(t, "objects", resp, auth)]
            /\ CASE r = "ok" ->
                      /\ updates' = [updates EXCEPT ![t] = resp.body]
                      /\ pc' = [pc EXCEPT ![t] = "run"]
                      /\ UNCHANGED <<err, returnedAt>>
                 [] r = "InvalidJSONError" ->
                      /\ Raise(t, "InvalidDataExportError")
                      /\ UNCHANGED updates
                 [] OTHER ->
                      /\ Raise(t, r)
                      /\ UNCHANGED updates
    /\ UNCHANGED <<shared, rid, timestamp, users, call, pos, parsed, before, fetchedAt>>

\* the running function goes on from the local state st (position, records
\* left to import, history, error): it raises, returns, or stops at an import
Continue(t, st) ==
    LET run == RunLocal(Fn(t), Payload(t), component.uuid, st)
    IN  /\ log' = [log EXCEPT ![t] =
                        IF run.err = "none" /\ run.pos > Len(Program(Fn(t)))
                        THEN Append(run.log, Event("return", Fn(t), "", 0, NoKey))
                        ELSE run.log]
        /\ IF run.err # "none"
           THEN /\ Raise(t, run.err)
                /\ parsed' = [parsed EXCEPT ![t] = run.parsed]
                /\ UNCHANGED <<call, pos, completed>>
           ELSE IF run.pos > Len(Program(Fn(t)))
           THEN /\ AfterCall(t, call[t])
                /\ err' = err
           ELSE /\ pos' = [pos EXCEPT ![t] = run.pos]
                /\ parsed' = [parsed EXCEPT ![t] = run.parsed]
                /\ UNCHANGED <<pc, call, err, completed, returnedAt>>

LocalState(t) == [pos |-> pos[t], parsed |-> parsed[t], log |-> log[t], err |-> "none"]

\* update_users(component, users) / update_shares(component, updates) is called:
\* header validation and parsing up to the first import
EnterFunction(t) ==
    /\ pc[t] = "run"
    /\ Fn(t) \in {"update_users", "update_shares"}
    /\ pos[t] = 1
    /\ IF Payload(t).kind = "unbound"
       THEN /\ Raise(t, "UnboundLocalError")
            /\ UNCHANGED <<call, pos, parsed, log, completed>>
       ELSE Continue(t, LocalState(t))
    /\ UNCHANGED <<clock, FEDERATION_UUID, registry, component, store, nrounds, rid,
                   timestamp, users, updates, before, fetchedAt>>

\* the import step the thread stands at
AtImport(t) ==
    /\ pc[t] = "run"
    /\ Fn(t) \in {"update_users", "update_shares"}
    /\ pos[t] > 1
    /\ pos[t] <= Len(Program(Fn(t)))
    /\ Program(Fn(t))[pos[t]].op = "import"
    /\ parsed[t][Program(Fn(t))[pos[t]].coll] # <<>>

\* the history entry of an import: k is the value written
ImportEvent(t, coll, p) == Event("import", Fn(t), coll, p.val, KeyOf(p))

\* one iteration of a loop "for data in <collection>: import_<entity>(data, component)"
Import(t) ==
    /\ AtImport(t)
    /\ LET coll == Program(Fn(t))[pos[t]].coll
           p == Head(parsed[t][coll])
       IN  /\ coll # "locations"
           /\ \/ /\ store' = import_entity(store, coll, p)
                 /\ Continue(t, [pos |-> pos[t],
                                 parsed |-> [parsed[t] EXCEPT ![coll] = Tail(parsed[t][coll])],
                                 log |-> Append(log[t], ImportEvent(t, coll, p)),
                                 err |-> "none"])
              \/ /\ Raise(t, "ImportError")
                 /\ UNCHANGED <<store, call, pos, parsed, log, completed>>
    /\ UNCHANGED <<clock, FEDERATION_UUID, registry, component, nrounds, rid,
                   timestamp, users, updates, before, fetchedAt>>

\* the records of the keys of chain, in that order
ChainRecords(d, chain) == [i \in 1..Len(chain) |-> DictGet(d, chain[i])]

\* variant: the selected key stays in the dict
DictRemove_keep_first(d, keys) ==
    SelectSeq(d, LAMBDA p : KeyOf(p) \notin keys \/ KeyOf(p) = KeyOf(Head(d)))

\* variant: the whole dict is emptied
DictRemove_clear(d, keys) == SelectSeq(d, LAMBDA p : FALSE)

\* the dict without the keys of chain
DictRemove(d, keys) == SelectSeq(d, LAMBDA p : KeyOf(p) \notin keys)

\* one iteration of "while len(locations) > 0": key = list(locations)[0];
\* import_location(locations[key], component, locations, users); pop key
ImportLocation(t) ==
    /\ AtImport(t)
    /\ LET coll == Program(Fn(t))[pos[t]].coll
           d == parsed[t][coll]
           chain == ImportChain(d, KeyOf(Head(d)), {})
           ps == ChainRecords(d, chain)
       IN  /\ coll = "locations"
           /\ \/ /\ store' = import_all(store, coll, ps)
                 /\ Continue(t, [pos |-> pos[t],
                                 parsed |-> [parsed[t] EXCEPT ![coll] =
                                               DictRemove(d, {chain[i] : i \in 1..Len(chain)})],
                                 log |-> log[t] \o [i \in 1..Len(ps) |-> ImportEvent(t, coll, ps[i])],
                                 err |-> "none"])
              \/ /\ Raise(t, "ImportError")
                 /\ UNCHANGED <<store, call, pos, parsed, log, completed>>
    /\ UNCHANGED <<clock, FEDERATION_UUID, registry, component, nrounds, rid,
                   timestamp, users, updates, before, fetchedAt>>

\* variant: the watermark is the time of completion
NewWatermark_now(t) == clock

\* the value component.update_last_sync_timestamp is called with
NewWatermark(t) == timestamp[t]

\* component.update_last_sync_timestamp(timestamp)
UpdateLastSync(t) ==
    /\ pc[t] = "run"
    /\ Fn(t) = "update_last_sync_timestamp"
    /\ component' = [component EXCEPT !.last_sync_timestamp = NewWatermark(t)]
    /\ log' = [log EXCEPT ![t] =
                  Append(log[t], Event("return", Fn(t), "", NewWatermark(t), NoKey))]
    /\ AfterCall(t, call[t])
    /\ UNCHANGED <<clock, FEDERATION_UUID, registry, store, nrounds, rid, timestamp,
                   users, updates, err, before, fetchedAt>>

\* where a thread is that serves no sync request
NoSync == {"idle", "poked", "poke_failed", "added", "add_failed", "edited", "edit_failed"}

\* update_poke_component(component): post('/federation/v1/hooks/update/', component),
\* called by a thread that serves no sync request
update_poke_component(t, responses) ==
    /\ pc[t] \in NoSync
    /\ \E resp \in responses, auth \in get_own_authentication(own_authentication, component.id) :
        LET r == post(component.address, resp)
        IN  /\ log' = [log EXCEPT ![t] =
                          IF r = "MissingComponentAddressError" THEN <<>>
                          ELSE <<Event("post", "update_poke_component", "hooks/update",
                                       0, Request(auth, component.address)),
                                 Event(r, "post", "hooks/update", 0, Answer(resp))>>]
            /\ pc' = [pc EXCEPT ![t] = IF r = "ok" THEN "poked" ELSE "poke_failed"]
            /\ err' = [err EXCEPT ![t] = IF r = "ok" THEN "none" ELSE r]
    /\ before' = [before EXCEPT ![t] = [watermark |-> component.last_sync_timestamp,
                                         store |-> store]]
    /\ UNCHANGED <<shared, rid, timestamp, users, updates, call, pos, parsed,
                   fetchedAt, returnedAt>>

\* time passes
Tick ==
    /\ clock < MaxClock
    /\ clock' = clock + 1
    /\ UNCHANGED <<FEDERATION_UUID, registry, component, store, nrounds, completed, pc, rid,
                   timestamp, users, updates, call, pos, parsed, err, log,
                   before, fetchedAt, returnedAt>>

\* successive sync requests, served one after the other by one thread
Next ==
    \/ StartRound("t1")
    \/ GetUsers("t1", UsersResponses)
    \/ GetShares("t1", SharesResponses)
    \/ EnterFunction("t1")
    \/ Import("t1")
    \/ ImportLocation("t1")
    \/ UpdateLastSync("t1")
    \/ Tick

Spec == Init /\ [][Next]_vars

(* ------------------------------------------------------------------ *)
(* Concurrent sync requests                                            *)
(* ------------------------------------------------------------------ *)
ConcUsersResponses ==
    {Resp(200, TRUE, Dict(HdrOK, OnlyUsers(<<User(1)>>))),
     Resp(401, TRUE, Dict(HdrNone, NoData))}

ConcSharesResponses ==
    {Resp(200, TRUE, Dict(HdrOK, [NoData EXCEPT !["users"] = <<User(v)>>,
                                               !["locations"] = <<Root(1)>>]))
       : v \in {1, 2}}
    \cup {Resp(200, TRUE, Dict(HdrOK, [NoData EXCEPT !["objects"] = <<BadRec>>]))}

InitConc ==
    /\ Init
    /\ FEDERATION_UUID # "None"
    /\ component.address # "None"

\* sync requests served by the threads of the server, in any interleaving
NextConc ==
    \/ \E t \in Threads : StartRound(t)
    \/ \E t \in Threads : GetUsers(t, ConcUsersResponses)
    \/ \E t \in Threads : GetShares(t, ConcSharesResponses)
    \/ \E t \in Threads : EnterFunction(t)
    \/ \E t \in Threads : Import(t)
    \/ \E t \in Threads : ImportLocation(t)
    \/ \E t \in Threads : UpdateLastSync(t)
    \/ Tick

SpecConc == InitConc /\ [][NextConc]_vars

(* ------------------------------------------------------------------ *)
(* update_shares on arbitrary payloads                                 *)
(* ------------------------------------------------------------------ *)
RECURSIVE SumLens(_, _)
SumLens(f, i) == IF i > Len(Colls) THEN 0 ELSE f[Colls[i]] + SumLens(f, i + 1)

\* numbers of records per collection, at most MaxRecs in all, no locations
Lens == {f \in [CollSet -> 0..MaxRecs] : f["locations"] = 0 /\ SumLens(f, 1) <= MaxRecs}

\* the records of a payload with f[c] records in collection c, all well-formed
\* but record bk of collection bc
DataOf(f, bc, bk) ==
    [c \in CollSet |-> [i \in 1..f[c] |-> Rec(i, PeerUUID, 1, ~(c = bc /\ i = bk), NoKey)]]

RecPayloads ==
    {Dict(HdrOK, DataOf(f, "", 0)) : f \in Lens}
    \cup UNION {UNION {{Dict(HdrOK, DataOf(f, c, k)) : k \in 1..f[c]} : c \in CollSet}
                : f \in Lens}

\* location records: fed_id in LocIds, parent absent, in LocIds or outside of it
LocIds == {1, 2, 3}
OutsideKey == <<9, PeerUUID>>
LocParents == {NoKey, OutsideKey} \cup {<<i, PeerUUID>> : i \in LocIds}
LocRecs == {Rec(i, PeerUUID, 1, TRUE, par) : i \in LocIds, par \in LocParents}
LocBatches == UNION {[1..n -> LocRecs] : n \in 0..MaxLocs}

\* payloads with a location batch between a markdown image and an object
LocPayloads ==
    {Dict(HdrOK, [NoData EXCEPT !["markdown_images"] = <<Root(1)>>,
                                !["locations"] = ls,
                                !["objects"] = <<Root(1)>>]) : ls \in LocBatches}

SharesPayloads == RecPayloads \cup LocPayloads

\* the history of a round up to the call of update_shares, with an empty users payload
LogBeforeShares ==
    <<Event("get", "import_updates", "users", NoTimestamp, Request(0, "https://peer")),
      Event("ok", "get", "users", 0, <<200, "json">>),
      Event("get", "import_updates", "objects", NoTimestamp, Request(0, "https://peer")),
      Event("ok", "get", "objects", 0, <<200, "json">>),
      Event("validate", "update_users", "header", 0, NoKey),
      Event("return", "update_users", "", 0, NoKey)>>

\* thread t1 is about to call update_shares(component, updates)
InitShares ==
    /\ clock = 1
    /\ FEDERATION_UUID = "L"
    /\ component = [id |-> 1, uuid |-> PeerUUID, address |-> "https://peer",
                    last_sync_timestamp |-> NoTimestamp]
    /\ ALLOW_HTTP = FALSE
    /\ own_authentication = {}
    /\ components = <<>>
    /\ store = {}
    /\ nrounds = MaxRounds
    /\ completed = <<>>
    /\ pc = [t \in Threads |-> IF t = "t1" THEN "run" ELSE "idle"]
    /\ rid = [t \in Threads |-> IF t = "t1" THEN 1 ELSE 0]
    /\ timestamp = [t \in Threads |-> IF t = "t1" THEN 1 ELSE NoTimestamp]
    /\ users = [t \in Threads |-> IF t = "t1" THEN Dict(HdrOK, NoData) ELSE Unbound]
    /\ \E payload \in SharesPayloads :
         updates = [t \in Threads |-> IF t = "t1" THEN payload ELSE Unbound]
    /\ call = [t \in Threads |-> IF t = "t1" THEN 2 ELSE 1]
    /\ pos = [t \in Threads |-> 1]
    /\ parsed = [t \in Threads |-> NoData]
    /\ err = [t \in Threads |-> "none"]
    /\ log = [t \in Threads |-> IF t = "t1" THEN LogBeforeShares ELSE <<>>]
    /\ before = [t \in Threads |-> [watermark |-> NoTimestamp, store |-> {}]]
    /\ fetchedAt = [t \in Threads |-> IF t = "t1" THEN 1 ELSE NoTimestamp]
    /\ returnedAt = [t \in Threads |-> NoTimestamp]

NextShares ==
    \/ EnterFunction("t1")
    \/ Import("t1")
    \/ ImportLocation("t1")
    \/ UpdateLastSync("t1")

SpecShares == InitShares /\ [][NextShares]_vars

(* ------------------------------------------------------------------ *)
(* _validate_header on arbitrary headers                               *)
(* ------------------------------------------------------------------ *)
\* values of the major / minor field: absent, a string int() rejects, an
\* array, the integers -1..MaxVersion and the digit strings "0".."MaxVersion"
VersionValues ==
    {VNone, VStr, VList}
    \cup {VInt(n) : n \in (0 - 1)..MaxVersion}
    \cup {VIntStr(n) : n \in 0..MaxVersion}

ProtocolVersions == {PVNone} \cup {PV(ma, mi) : ma, mi \in VersionValues}

\* headers: absent, or a dict whose db_uuid is the peer's, another one or absent
Headers ==
    {HdrNone} \cup {Hdr(u, pv) : u \in {PeerUUID, OtherUUID, "None"}, pv \in ProtocolVersions}

\* answers to GET /federation/v1/shares/users/: every header, one user
HeaderUsersResponses ==
    {Resp(200, TRUE, Dict(h, OnlyUsers(<<User(1)>>))) : h \in Headers}

\* answers to GET /federation/v1/shares/objects/: a few headers, one object
HeaderSharesResponses ==
    {Resp(200, TRUE, Dict(h, [NoData EXCEPT !["objects"] = <<Root(1)>>]))
       : h \in {HdrNone, HdrOK, HdrWrongUUID, Hdr("None", PV(VList, VStr)),
                Hdr(PeerUUID, PV(VInt(0 - 1), VInt(MaxVersion))),
                Hdr(PeerUUID, PV(VIntStr(0), VIntStr(1)))}}

InitHeader ==
    /\ Init
    /\ FEDERATION_UUID # "None"
    /\ component.address # "None"

NextHeader ==
    \/ StartRound("t1")
    \/ GetUsers("t1", HeaderUsersResponses)
    \/ GetShares("t1", HeaderSharesResponses)
    \/ EnterFunction("t1")
    \/ Import("t1")
    \/ UpdateLastSync("t1")

SpecHeader == InitHeader /\ [][NextHeader]_vars

(* ------------------------------------------------------------------ *)
(* get on arbitrary responses                                          *)
(* ------------------------------------------------------------------ *)
\* status codes: success, the codes get maps to errors, and their neighbours
Statuses == {200, 401, 404} \cup 499..505

\* the JSON body that comes with a status: a payload, or an error message
BodyOf(status) ==
    IF status = 200 THEN Dict(HdrOK, OnlyUsers(<<User(1)>>)) ELSE Dict(HdrNone, NoData)

\* every status with a JSON and with a non-JSON body, and no response at all
GetResponses ==
    {Resp(st, TRUE, BodyOf(st)) : st \in Statuses}
    \cup {Resp(st, FALSE, NotADict) : st \in Statuses}
    \cup {ConnectionFailure}

\* answers to POST /federation/v1/hooks/update/
PokeResponses == {Resp(200, TRUE, BodyOf(404)), Resp(401, FALSE, NotADict), ConnectionFailure}

InitGet ==
    /\ Init
    /\ FEDERATION_UUID # "None"

NextGet ==
    \/ StartRound("t1")
    \/ GetUsers("t1", GetResponses)
    \/ GetShares("t1", GetResponses)
    \/ update_poke_component("t2", PokeResponses)
    \/ EnterFunction("t1")
    \/ Import("t1")
    \/ UpdateLastSync("t1")

SpecGet == InitGet /\ [][NextGet]_vars

(* ------------------------------------------------------------------ *)
(* The components table: add and edit forms                            *)
(* ------------------------------------------------------------------ *)
\* addresses by their beginning: 'https://', 'http://' (address[:7]), neither
SecureAddresses == {"https://peer"}
HttpAddresses == {"http://peer"}
OtherAddresses == {"HTTP://peer"}

\* what the address field of a form can hold; '' stands for no address
FormAddresses == {""} \cup SecureAddresses \cup HttpAddresses \cup OtherAddresses

\* variant: the logic layer stores every address
validate_address_unchecked(address, allow_http) == "ok"

\* the address check of add_component and update_component: http:// needs
\* ALLOW_HTTP, anything that is neither https:// nor http:// is invalid
validate_address(address, allow_http) ==
    IF address = "None" \/ address \in SecureAddresses THEN "ok"
    ELSE IF address \in HttpAddresses
         THEN IF allow_http THEN "ok" ELSE "InsecureComponentAddressError"
    ELSE "InvalidComponentAddressError"

\* address = form.address.data; if address == '': address = None
FormAddress(data) == IF data = "" THEN "None" ELSE data

\* the outcome of the add form: the error shown, or "ok"
add_component_form(data, allow_http) ==
    IF ~allow_http /\ data \in HttpAddresses THEN "InsecureComponentAddressError"
    ELSE validate_address(FormAddress(data), allow_http)

\* POST of the add form to /other-databases/
AddComponent(t, data) ==
    /\ pc[t] \in NoSync
    /\ Len(components) < MaxComponents
    /\ LET r == add_component_form(data, ALLOW_HTTP)
       IN  /\ pc' = [pc EXCEPT ![t] = IF r = "ok" THEN "added" ELSE "add_failed"]
           /\ err' = [err EXCEPT ![t] = IF r = "ok" THEN "none" ELSE r]
           /\ components' = IF r = "ok" THEN Append(components, FormAddress(data))
                            ELSE components
    /\ log' = [log EXCEPT ![t] = <<>>]
    /\ UNCHANGED <<clock, FEDERATION_UUID, ALLOW_HTTP, own_authentication, component,
                   store, nrounds, completed, rid, timestamp, users, updates, call,
                   pos, parsed, before, fetchedAt, returnedAt>>

\* POST of the edit form to /other-databases/<component_id>
EditComponent(t, component_id, data) ==
    /\ pc[t] \in NoSync
    /\ component_id \in {component.id} \cup {i + 1 : i \in 1..Len(components)}
    /\ LET r == validate_address(FormAddress(data), ALLOW_HTTP)
           stored == r = "ok"
       IN  /\ pc' = [pc EXCEPT ![t] = IF stored THEN "edited" ELSE "edit_failed"]
           /\ err' = [err EXCEPT ![t] = IF stored THEN "none" ELSE r]
           /\ component' = IF stored /\ component_id = component.id
                           THEN [component EXCEPT !.address = FormAddress(data)]
                           ELSE component
           /\ components' = IF stored /\ component_id # component.id
                            THEN [components EXCEPT ![component_id - 1] = FormAddress(data)]
                            ELSE components
    /\ log' = [log EXCEPT ![t] = <<>>]
    /\ UNCHANGED <<clock, FEDERATION_UUID, ALLOW_HTTP, own_authentication,
                   store, nrounds, completed, rid, timestamp, users, updates, call,
                   pos, parsed, before, fetchedAt, returnedAt>>

\* the own credentials: none, one for the component, one for another
\* component only, two for the component and one for another
OwnTokens ==
    {{},
     {[component_id |-> 1, token |-> 11]},
     {[component_id |-> 2, token |-> 21]},
     {[component_id |-> 1, token |-> 11], [component_id |-> 1, token |-> 12],
      [component_id |-> 2, token |-> 21]}}

RegistryUsersResponses == {Resp(200, TRUE, Dict(HdrOK, NoData))}

RegistrySharesResponses ==
    {Resp(200, TRUE, Dict(HdrOK, NoData)), Resp(503, FALSE, NotADict)}

\* an http:// address can be in the table only when ALLOW_HTTP was set
InitRegistry ==
    /\ clock = 1
    /\ FEDERATION_UUID = "L"
    /\ ALLOW_HTTP \in BOOLEAN
    /\ own_authentication \in OwnTokens
    /\ components = <<>>
    /\ component \in [id : {1}, uuid : {PeerUUID},
                      address : {"None", "https://peer"} \cup HttpAddresses,
                      last_sync_timestamp : {NoTimestamp}]
    /\ component.address \in HttpAddresses => ALLOW_HTTP
    /\ store = {}
    /\ nrounds = 0
    /\ completed = <<>>
    /\ Idle

NextRegistry ==
    \/ \E data \in FormAddresses : AddComponent("t2", data)
    \/ \E data \in FormAddresses, component_id \in 1..(MaxComponents + 1) :
          EditComponent("t2", component_id, data)
    \/ update_poke_component("t2", {Resp(200, FALSE, NotADict)})
    \/ StartRound("t1")
    \/ GetUsers("t1", RegistryUsersResponses)
    \/ GetShares("t1", RegistrySharesResponses)
    \/ EnterFunction("t1")
    \/ UpdateLastSync("t1")

SpecRegistry == InitRegistry /\ [][NextRegistry]_vars

(* ------------------------------------------------------------------ *)
(* Properties                                                          *)
(* ------------------------------------------------------------------ *)
Last(t) == log[t][Len(log[t])]

\* positions of the imports that function fn made in the round of t
ImportsBy(t, fn) ==
    {i \in 1..Len(log[t]) : log[t][i].op = "import" /\ log[t][i].fn = fn}

Imports(t) == {i \in 1..Len(log[t]) : log[t][i].op = "import"}

Returned(t, fn) ==
    \E i \in 1..Len(log[t]) : log[t][i].op = "return" /\ log[t][i].fn = fn

ParseFailed(t) == pc[t] = "failed" /\ err[t] = "ParseError"

\* C1: a round that raises leaves last_sync_timestamp as it was before the
\* round, and the watermark changes only by a step of a round in which
\* update_users and update_shares have both returned.
C1_WatermarkOnlyAfterBothUpdates ==
    [][/\ \A t \in Threads :
            pc'[t] = "failed" => component'.last_sync_timestamp = before'[t].watermark
       /\ component'.last_sync_timestamp # component.last_sync_timestamp =>
            \E t \in Threads : /\ pc[t] = "run"
                               /\ Returned(t, "update_users")
                               /\ Returned(t, "update_shares")]_vars

C1_RaisedAfterAnEarlierSync ==
    \E t \in Threads : /\ pc[t] = "failed"
                       /\ Imports(t) # {}
                       /\ completed # <<>>
                       /\ component.last_sync_timestamp > 0

\* C2: after a successful round the watermark is the timestamp captured
\* before the first GET: watermark <= time of the first fetch <= time of completion.
C2_WatermarkIsStartTimestamp ==
    \A t \in Threads :
        pc[t] = "done" =>
            /\ component.last_sync_timestamp = timestamp[t]
            /\ component.last_sync_timestamp <= fetchedAt[t]
            /\ fetchedAt[t] <= returnedAt[t]

C2_CompletedLaterThanStarted ==
    \E t \in Threads : pc[t] = "done" /\ timestamp[t] < returnedAt[t]

HeaderProblem(h) ==
    /\ h.kind = "dict"
    /\ \/ h.db_uuid # PeerUUID
       \/ h.protocol_version.kind = "none"
       \/ /\ h.protocol_version.kind = "dict"
          /\ h.protocol_version.major.kind = "int"
          /\ h.protocol_version.minor.kind = "int"
          /\ \/ h.protocol_version.major.v > 0
             \/ h.protocol_version.minor.v > 1

\* the round of t stopped at a non-JSON body or at the header of a payload
ProtocolError(t) ==
    /\ pc[t] = "failed"
    /\ log[t] # <<>>
    /\ \/ Last(t).op = "InvalidJSONError"
       \/ /\ Last(t).op = "validate"
          /\ LET payload == IF Last(t).fn = "update_users" THEN users[t] ELSE updates[t]
             IN  payload.kind = "dict" /\ HeaderProblem(payload.header)

RECURSIVE TotalRecords(_, _)
TotalRecords(data, i) ==
    IF i > Len(Colls) THEN 0 ELSE Len(data[Colls[i]]) + TotalRecords(data, i + 1)

ParsesBy(t, fn) ==
    {i \in 1..Len(log[t]) : log[t][i].op = "parse" /\ log[t][i].fn = fn}

C5_SharesParsedBeforeAnyImport ==
    \A t \in Threads :
        /\ (ParseFailed(t) /\ Last(t).fn = "update_shares") =>
                ImportsBy(t, "update_shares") = {}
        /\ ImportsBy(t, "update_shares") # {} =>
                /\ \A i \in ImportsBy(t, "update_shares") :
                       \A j \in ParsesBy(t, "update_shares") : j < i
                /\ Cardinality(ParsesBy(t, "update_shares")) = TotalRecords(updates[t].data, 1)

C5_SecondActionTypeMalformed ==
    \E t \in Threads : /\ ParseFailed(t)
                       /\ Last(t).fn = "update_shares"
                       /\ Last(t).coll = "action_types"
                       /\ Last(t).k = 2
                       /\ updates[t].data["markdown_images"] # <<>>

\* C6: at no point are two rounds against the component in flight at once.
InFlight == {t \in Threads : pc[t] \in {"get_users", "get_shares", "run"}}

C6_RoundsSerialized == Cardinality(InFlight) <= 1

\* C7: a round that fails in the import phase leaves none of its writes
\* visible in the store.
C7_FailedRoundLeavesNoWrites ==
    \A t \in Threads :
        (pc[t] = "failed" /\ err[t] = "ImportError") => store = before[t].store

\* C8: import is idempotent per federation identity: after every import there
\* is exactly one entity with the imported (type, fed_id, component) and it
\* holds the imported value; importing a record the store already holds with
\* that value leaves the store as it is.
SameIdentity(row, coll, key) ==
    row.type = coll /\ <<row.fed_id, row.component_uuid>> = key

NewImports(old, new) ==
    {new[i] : i \in {j \in (Len(old) + 1)..Len(new) : new[j].op = "import"}}

C8_ImportIdempotent ==
    [][\A t \in Threads :
          LET imported == NewImports(log[t], log'[t])
          IN  /\ \A e \in imported :
                    /\ Cardinality({row \in store' : SameIdentity(row, e.coll, e.key)}) = 1
                    /\ \A row \in store' : SameIdentity(row, e.coll, e.key) => row.val = e.k
              /\ (/\ imported # {}
                  /\ \A e \in imported :
                        \E row \in store : SameIdentity(row, e.coll, e.key) /\ row.val = e.k)
                 => store' = store]_vars

C8_SameRecordImportedTwice ==
    \E t \in Threads :
        \E i, j \in Imports(t) :
            /\ i < j
            /\ log[t][i].coll = log[t][j].coll
            /\ log[t][i].key = log[t][j].key
            /\ log[t][i].k = log[t][j].k
            /\ log[t][i].fn = "update_users"
            /\ log[t][j].fn = "update_shares"
            /\ completed # <<>>
            /\ before[t].store # {}

\* the location batch of the shares payload of t, as update_shares collects it
Batch(t) == ParseList("locations", updates[t].data["locations"], 1, <<>>)

\* a batch has a parent cycle when some non-empty set of its keys holds the
\* parent of each of its members
CyclicBatch(d) ==
    \E S \in SUBSET DictKeys(d) :
        S # {} /\ \A key \in S : DictGet(d, key).parent \in S

InShares(t) ==
    pc[t] \in {"run", "done", "failed"} /\ updates[t].kind = "dict" /\ call[t] >= 2

\* no record of the payload up to and including the locations is malformed
ParsesUpToLocations(t) ==
    \A c \in CollSet \ {"objects"} : FirstBad(updates[t].data[c], 1) = 0

\* C9: a shares payload whose locations contain a parent cycle makes
\* update_shares fail with the cyclic-dependency error, and update_shares
\* imports nothing of that payload.
C9_CycleImportsNothing ==
    \A t \in Threads :
        (InShares(t) /\ updates[t].header = HdrOK /\ CyclicBatch(Batch(t))) =>
            /\ ImportsBy(t, "update_shares") = {}
            /\ pc[t] # "done"
            /\ (pc[t] = "failed" /\ ParsesUpToLocations(t)) => err[t] = "CyclicLocationError"

C9_TwoCycleRejected ==
    \E t \in Threads :
        /\ pc[t] = "failed"
        /\ err[t] = "CyclicLocationError"
        /\ updates[t].data["markdown_images"] # <<>>
        /\ \E a, b \in DictKeys(Batch(t)) :
              /\ a # b
              /\ DictGet(Batch(t), a).parent = b
              /\ DictGet(Batch(t), b).parent = a

\* positions of the imports of the location key in the round of t
LocationImports(t, key) ==
    {i \in 1..Len(log[t]) : /\ log[t][i].op = "import"
                            /\ log[t][i].fn = "update_shares"
                            /\ log[t][i].coll = "locations"
                            /\ log[t][i].key = key}

\* update_shares has left its location loop
LocationsDrained(t) ==
    \/ pc[t] = "done"
    \/ \E i \in 1..Len(log[t]) : /\ log[t][i].fn = "update_shares"
                                 /\ log[t][i].op \in {"return"}
    \/ \E i \in ImportsBy(t, "update_shares") : log[t][i].coll = "objects"

\* C10: for an acyclic location batch the cycle check passes, a location is
\* imported only after its parent when the parent is in the batch, whatever
\* the order of the payload, and once the location loop is over every
\* location of the batch has been imported.
C10_ParentFirstNoneDropped ==
    \A t \in Threads :
        (InShares(t) /\ ~CyclicBatch(Batch(t))) =>
            /\ err[t] # "CyclicLocationError"
            /\ \A key \in DictKeys(Batch(t)) :
                  \A i \in LocationImports(t, key) :
                      DictGet(Batch(t), key).parent \in DictKeys(Batch(t)) =>
                          \E j \in LocationImports(t, DictGet(Batch(t), key).parent) : j < i
            /\ LocationsDrained(t) =>
                  \A key \in DictKeys(Batch(t)) : Cardinality(LocationImports(t, key)) = 1

C10_ChildListedBeforeParent ==
    \E t \in Threads :
        /\ pc[t] = "done"
        /\ Len(Batch(t)) = 3
        /\ KeyOf(Batch(t)[1]) = <<1, PeerUUID>>
        /\ Batch(t)[1].parent = <<2, PeerUUID>>
        /\ Batch(t)[2].parent = <<3, PeerUUID>>
        /\ Batch(t)[3].parent = OutsideKey

\* the users fetch of the round of t was answered 401 or 500..504
UsersFetchSwallowed(t) ==
    \E i \in 1..Len(log[t]) :
        /\ log[t][i].fn = "get"
        /\ log[t][i].coll = "users"
        /\ log[t][i].op \in {"UnauthorizedRequestError", "RequestServerError"}

\* the shares payload of t passes validation, parsing and the cycle check
SharesPayloadSound(t) ==
    /\ updates[t].kind = "dict"
    /\ _validate_header(updates[t].header, component.uuid) = "ok"
    /\ \A c \in CollSet : FirstBad(updates[t].data[c], 1) = 0
    /\ ~CyclicBatch(Batch(t))

\* C11: a 401 or 500..504 answer to the users fetch is not fatal: when the
\* shares fetch, validation, parsing and imports succeed, the round returns
\* without raising, with the entities of the shares payload imported and the
\* watermark advanced to the start timestamp.
C11_UsersFetchErrorNotFatal ==
    \A t \in Threads :
        (/\ UsersFetchSwallowed(t)
         /\ SharesPayloadSound(t)
         /\ pc[t] \in {"done", "failed"}
         /\ err[t] # "ImportError") =>
            /\ pc[t] = "done"
            /\ Cardinality(ImportsBy(t, "update_shares")) >= TotalRecords(updates[t].data, 1)
            /\ component.last_sync_timestamp = timestamp[t]

\* positions of the outcomes of the fetch of an endpoint in the round of t
Fetched(t, endpoint) ==
    {i \in 1..Len(log[t]) : log[t][i].fn = "get" /\ log[t][i].coll = endpoint}

\* the error get raises for a status, if any
StatusError(status) ==
    IF status = 401 THEN "UnauthorizedRequestError"
    ELSE IF status \in 500..504 THEN "RequestServerError"
    ELSE "none"

\* C12: a 401 answer to the shares fetch makes the round raise
\* UnauthorizedRequestError, a 500..504 answer RequestServerError, with
\* nothing imported; the same answer to the users fetch does not end the fetch
\* step: the GET for /shares/objects/ is issued right after it.
C12_SharesFetchErrorFatalUsersNot ==
    \A t \in Threads :
        /\ \A i \in Fetched(t, "objects") :
              StatusError(log[t][i].key[1]) # "none" =>
                  /\ pc[t] = "failed"
                  /\ err[t] = StatusError(log[t][i].key[1])
                  /\ Imports(t) = {}
                  /\ store = before[t].store
        /\ \A i \in Fetched(t, "users") :
              StatusError(log[t][i].key[1]) # "none" =>
                  IF i = Len(log[t]) THEN pc[t] = "get_shares"
                  ELSE log[t][i + 1] = Event("get", "import_updates", "objects",
                                             before[t].watermark,
                                             Request(0, component.address))

C12_BothFetchesRefused ==
    \E t \in Threads :
        /\ pc[t] = "failed"
        /\ err[t] = "RequestServerError"
        /\ \E i \in Fetched(t, "users") : log[t][i].key[1] = 401
        /\ \E i \in Fetched(t, "objects") : log[t][i].key[1] = 503
        /\ before[t].store # {}

\* the payload function fn of the round of t works on
PayloadOf(t, fn) == IF fn = "update_users" THEN users[t] ELSE updates[t]

\* function fn of the round of t has called _validate_header on a header dict
HeaderChecked(t, fn) ==
    /\ \E i \in 1..Len(log[t]) : log[t][i].op = "validate" /\ log[t][i].fn = fn
    /\ PayloadOf(t, fn).kind = "dict"
    /\ PayloadOf(t, fn).header.kind = "dict"

\* C13: every header whose db_uuid differs from component.uuid, the header
\* without db_uuid included, makes _validate_header raise
\* InvalidDataExportError, whatever its protocol_version holds (valid,
\* unsupported, malformed or absent).
C13_ForeignUUIDAlwaysRejected ==
    \A t \in Threads : \A fn \in {"update_users", "update_shares"} :
        (HeaderChecked(t, fn) /\ PayloadOf(t, fn).header.db_uuid # component.uuid) =>
            /\ pc[t] = "failed"
            /\ err[t] = "InvalidDataExportError"
            /\ Last(t) = Event("validate", fn, "header", 0, NoKey)

C13_NoUUIDAndArrayVersion ==
    \E t \in Threads :
        /\ HeaderChecked(t, "update_users")
        /\ users[t].header.db_uuid = "None"
        /\ users[t].header.protocol_version.major = VList
        /\ pc[t] = "failed"
        /\ err[t] = "InvalidDataExportError"

\* _validate_header raised in function fn of the round of t
Rejected(t, fn) ==
    /\ pc[t] = "failed"
    /\ log[t] # <<>>
    /\ Last(t) = Event("validate", fn, "header", 0, NoKey)

\* the header function fn checked has the peer's db_uuid and JSON integers
\* as major and minor
IntegerVersion(t, fn) ==
    /\ HeaderChecked(t, fn)
    /\ PayloadOf(t, fn).header.db_uuid = component.uuid
    /\ PayloadOf(t, fn).header.protocol_version.kind = "dict"
    /\ PayloadOf(t, fn).header.protocol_version.major.kind = "int"
    /\ PayloadOf(t, fn).header.protocol_version.minor.kind = "int"

\* C14: with the peer's db_uuid and an integer (major, minor), validation
\* passes when major = 0 and minor <= 1 and raises InvalidDataExportError when
\* major > 0 or when major = 0 and minor > 1; major is compared first, and a
\* major that is at most 0 is accepted exactly when minor is at most 1.
C14_VersionDecision ==
    \A t \in Threads : \A fn \in {"update_users", "update_shares"} :
        IntegerVersion(t, fn) =>
            LET major == PayloadOf(t, fn).header.protocol_version.major.v
                minor == PayloadOf(t, fn).header.protocol_version.minor.v
            IN  /\ (major = 0 /\ minor <= 1) => ~Rejected(t, fn)
                /\ (major > 0 \/ (major = 0 /\ minor > 1)) =>
                       Rejected(t, fn) /\ err[t] = "InvalidDataExportError"
                /\ major <= 0 => (Rejected(t, fn) <=> minor > 1)
                /\ Rejected(t, fn) => err[t] = "InvalidDataExportError"

C14_OlderMajorNewerMinorRejected ==
    \E t \in Threads :
        /\ IntegerVersion(t, "update_users")
        /\ users[t].header.protocol_version = PV(VInt(0), VInt(1))
        /\ ImportsBy(t, "update_users") # {}
        /\ IntegerVersion(t, "update_shares")
        /\ updates[t].header.protocol_version.major.v < 0
        /\ updates[t].header.protocol_version.minor.v > 1
        /\ Rejected(t, "update_shares")

\* C15: for each of the two payloads, the header is validated (db_uuid and
\* protocol version) before any record of that payload is parsed and before
\* any entity of it is imported.
C15_HeaderValidatedFirst ==
    \A t \in Threads : \A fn \in {"update_users", "update_shares"} :
        \A i \in ParsesBy(t, fn) \cup ImportsBy(t, fn) :
            /\ \E j \in 1..(i - 1) : log[t][j] = Event("validate", fn, "header", 0, NoKey)
            /\ PayloadOf(t, fn).kind = "dict"
            /\ ~HeaderProblem(PayloadOf(t, fn).header)

C15_RejectedBeforeAnyRecord ==
    \E t \in Threads :
        /\ Rejected(t, "update_shares")
        /\ TotalRecords(updates[t].data, 1) > 0
        /\ ParsesBy(t, "update_shares") = {}
        /\ ParsesBy(t, "update_users") # {}
        /\ ImportsBy(t, "update_users") # {}

\* the position of the round of t in the order of completion (0: not completed)
CompletedAt(t) ==
    IF \E i \in 1..Len(completed) : completed[i] = rid[t]
    THEN CHOOSE i \in 1..Len(completed) : completed[i] = rid[t]
    ELSE 0

\* positions of the imports of the user with the given identity in the round of t
UserImports(t, key) ==
    {i \in Imports(t) : log[t][i].coll = "users" /\ log[t][i].key = key}

\* the value the round of t imported last for the user
LastValue(t, key) ==
    log[t][CHOOSE i \in UserImports(t, key) : \A j \in UserImports(t, key) : j <= i].k

\* C16: when two rounds against the component carried conflicting values for
\* one federation identity and both have completed, the stored value is that
\* of the round that completed later, in every interleaving of the two rounds.
C16_LaterCompletedRoundWins ==
    \A a, b \in Threads :
        \A key \in {<<1, PeerUUID>>} :
            (/\ pc[a] = "done" /\ pc[b] = "done"
             /\ 0 < CompletedAt(b)
             /\ CompletedAt(b) < CompletedAt(a)
             /\ CompletedAt(a) = Len(completed)
             /\ UserImports(a, key) # {} /\ UserImports(b, key) # {}
             /\ LastValue(a, key) # LastValue(b, key)) =>
                \A row \in store :
                    SameIdentity(row, "users", key) => row.val = LastValue(a, key)

\* the order of the entity types the claim states
TypeOrder ==
    <<"markdown_images", "users", "instruments", "action_types", "actions",
      "location_types", "locations", "objects">>

TypeIndex(c) == CHOOSE i \in 1..Len(TypeOrder) : TypeOrder[i] = c

\* the imports at the positions I of the round of t follow the type order
InTypeOrder(t, I) ==
    \A i, j \in I :
        TypeIndex(log[t][i].coll) < TypeIndex(log[t][j].coll) => i < j

\* C17 (as claimed): in one round every import of an entity of an earlier
\* type of the order markdown images, users, instruments, action types,
\* actions, location types, locations, objects comes before every import of
\* an entity of a later type.
C17_RoundImportsInTypeOrder ==
    \A t \in Threads : InTypeOrder(t, Imports(t))

\* C17 (amended): in one round update_users imports the users of the users
\* payload before update_shares imports anything, and the imports of
\* update_shares follow the order markdown images, users, instruments, action
\* types, actions, location types, locations, objects.
C17_SharesImportsInTypeOrder ==
    \A t \in Threads :
        /\ InTypeOrder(t, ImportsBy(t, "update_shares"))
        /\ \A i \in ImportsBy(t, "update_users") :
              /\ log[t][i].coll = "users"
              /\ \A j \in ImportsBy(t, "update_shares") : i < j

C17_UserImportedBeforeMarkdownImage ==
    \E t \in Threads :
        /\ pc[t] = "done"
        /\ ImportsBy(t, "update_users") # {}
        /\ \A c \in CollSet : \E j \in ImportsBy(t, "update_shares") : log[t][j].coll = c

\* the local variable import_updates binds the result of a fetch to
FetchedInto(t, endpoint) == IF endpoint = "users" THEN users[t] ELSE updates[t]

\* C18: get raises UnauthorizedRequestError for status 401 and
\* RequestServerError for status 500..504 whatever the body is,
\* InvalidJSONError for any other response whose body is not JSON, and returns
\* the decoded body otherwise; a connection failure is none of these three
\* errors and ends the round of import_updates at either fetch.
C18_GetMapsResponses ==
    \A t \in Threads : \A endpoint \in {"users", "objects"} :
        \A i \in Fetched(t, endpoint) :
            LET outcome == log[t][i].op
                status == log[t][i].key[1]
                body == log[t][i].key[2]
            IN  CASE body = "none" ->
                       /\ outcome \notin {"UnauthorizedRequestError", "RequestServerError",
                                          "InvalidJSONError", "ok"}
                       /\ pc[t] = "failed"
                       /\ err[t] = outcome
                       /\ i = Len(log[t])
                  [] body # "none" /\ status = 401 -> outcome = "UnauthorizedRequestError"
                  [] body # "none" /\ status \in 500..504 -> outcome = "RequestServerError"
                  [] body = "text" /\ status # 401 /\ status \notin 500..504 ->
                       outcome = "InvalidJSONError"
                  [] OTHER ->
                       /\ outcome = "ok"
                       /\ FetchedInto(t, endpoint) = BodyOf(status)

C18_ServerErrorThenNoConnection ==
    \E t \in Threads :
        /\ pc[t] = "failed"
        /\ err[t] = "ConnectionError"
        /\ \E i \in Fetched(t, "users") :
              log[t][i].key = <<502, "json">> /\ log[t][i].op = "RequestServerError"
        /\ \E i \in Fetched(t, "objects") : log[t][i].key[2] = "none"

\* positions of the requests sent to the peer in the round of t
Requests(t) == {i \in 1..Len(log[t]) : log[t][i].op \in {"get", "post"}}

\* C19: while FEDERATION_UUID is None (the default), import_updates raises
\* ComponentNotConfiguredForFederationError with no request sent to the peer,
\* no entity imported and the watermark left as it was.
C19_NotConfiguredStopsRound ==
    FEDERATION_UUID = "None" =>
        \A t \in Threads :
            /\ pc[t] \notin {"get_users", "get_shares", "run", "done"}
            /\ pc[t] = "failed" =>
                  /\ err[t] = "ComponentNotConfiguredForFederationError"
                  /\ Requests(t) = {}
                  /\ Imports(t) = {}
                  /\ store = before[t].store
                  /\ component.last_sync_timestamp = before[t].watermark

C19_NotConfiguredWithAddress ==
    \E t \in Threads :
        /\ pc[t] = "failed"
        /\ err[t] = "ComponentNotConfiguredForFederationError"
        /\ component.address # "None"
        /\ component.last_sync_timestamp = 0
        /\ nrounds = MaxRounds

\* C20: for a component without address get and post raise
\* MissingComponentAddressError and send nothing: a round against it fails
\* with no request sent, nothing imported and the watermark as it was, and a
\* poke fails with no request sent.
C20_NoAddressNoRequest ==
    component.address = "None" =>
        \A t \in Threads :
            /\ Requests(t) = {}
            /\ pc[t] \notin {"get_shares", "run", "done", "poked"}
            /\ pc[t] \in {"failed", "poke_failed"} =>
                  /\ err[t] = "MissingComponentAddressError"
                  /\ log[t] = <<>>
                  /\ store = before[t].store
                  /\ component.last_sync_timestamp = before[t].watermark

C20_RoundAndPokeWithoutAddress ==
    /\ component.address = "None"
    /\ pc["t1"] = "failed"
    /\ err["t1"] = "MissingComponentAddressError"
    /\ pc["t2"] = "poke_failed"
    /\ err["t2"] = "MissingComponentAddressError"
    /\ nrounds = MaxRounds

\* absent or beginning with https://
SecureOrAbsent(address) == address = "None" \/ address \in SecureAddresses

\* C21: while ALLOW_HTTP is false, whatever was added and edited, every
\* stored component address is absent or an https:// address, and every
\* request of get and post goes to an https:// address.
C21_HttpsOnly ==
    ~ALLOW_HTTP =>
        /\ SecureOrAbsent(component.address)
        /\ \A i \in 1..Len(components) : SecureOrAbsent(components[i])
        /\ \A t \in Threads : \A i \in Requests(t) : log[t][i].key[2] \in SecureAddresses

C21_HttpEditRefusedThenSynced ==
    /\ ~ALLOW_HTTP
    /\ pc["t2"] = "edit_failed"
    /\ err["t2"] = "InsecureComponentAddressError"
    /\ Len(components) = MaxComponents
    /\ component.address = "https://peer"
    /\ before["t1"].watermark = NoTimestamp
    /\ pc["t1"] = "done"
    /\ \E i \in Requests("t1") : log["t1"][i].key[2] = "https://peer"

\* the own tokens stored for a component
TokensOf(component_id) ==
    {a.token : a \in {b \in own_authentication : b.component_id = component_id}}

PhaseOf(e) ==
    CASE e.op = "get" \/ e.fn = "get" -> 1
      [] e.op = "validate" -> 2
      [] e.op \in {"parse", "cycle_check"} -> 3
      [] e.op = "import" -> 4
      [] OTHER -> 0

\* the entries at the positions I of the history of t never go back to an earlier phase
PhasesInOrder(t, I) ==
    \A i, j \in I :
        (i < j /\ PhaseOf(log[t][i]) # 0 /\ PhaseOf(log[t][j]) # 0) =>
            PhaseOf(log[t][i]) <= PhaseOf(log[t][j])

\* positions of what function fn did in the round of t
StepsOf(t, fn) == {i \in 1..Len(log[t]) : log[t][i].fn = fn /\ PhaseOf(log[t][i]) >= 2}

\* C23 (as claimed): a round goes through FETCHING, VALIDATING, PARSING,
\* IMPORTING in this order and never back: both fetches come before every
\* header validation, every validation before every parse, every parse
\* before every import of the round.
C23_PhasesOncePerRound ==
    \A t \in Threads : PhasesInOrder(t, 1..Len(log[t]))

\* C23 (amended): both fetches of a round come before anything else; then
\* update_users validates, parses and imports the users payload, and only
\* after it update_shares validates, parses and imports the shares payload:
\* the phases VALIDATING, PARSING, IMPORTING are in order within each of the
\* two functions, and the round is DONE only after the watermark is stored.
C23_PhasesOncePerPayload ==
    \A t \in Threads :
        /\ \A i \in Fetched(t, "users") \cup Fetched(t, "objects") :
              \A j \in StepsOf(t, "update_users") \cup StepsOf(t, "update_shares") : i < j
        /\ PhasesInOrder(t, StepsOf(t, "update_users"))
        /\ PhasesInOrder(t, StepsOf(t, "update_shares"))
        /\ \A i \in StepsOf(t, "update_users") : \A j \in StepsOf(t, "update_shares") : i < j
        /\ pc[t] = "done" =>
              /\ Last(t).fn = "update_last_sync_timestamp"
              /\ Returned(t, "update_users")
              /\ Returned(t, "update_shares")

C23_SharesValidatedAfterUserImport ==
    \E t \in Threads :
        /\ pc[t] = "done"
        /\ \E i \in ImportsBy(t, "update_users") :
              \E j \in StepsOf(t, "update_shares") :
                  i < j /\ log[t][j].op = "validate"
        /\ ImportsBy(t, "update_shares") # {}

\* the parsed records of the running function that the round of t has not imported
RECURSIVE Pending(_, _)
Pending(t, i) ==
    IF i > Len(Colls) THEN 0 ELSE Len(parsed[t][Colls[i]]) + Pending(t, i + 1)

\* C24: a failure while importing one entity does not abort the batch: the
\* entities after it in the import order are imported in the same round, so
\* that only the failed one is left, the failure is reported and the
\* watermark is not advanced.
C24_ImportFailureSkipsOneEntity ==
    \A t \in Threads :
        (pc[t] = "failed" /\ err[t] = "ImportError") =>
            /\ Pending(t, 1) <= 1
            /\ component.last_sync_timestamp = before[t].watermark

\* C25: the stored watermark never decreases: every write of
\* last_sync_timestamp stores a value greater than or equal to the one it
\* replaces, in every sequence and interleaving of rounds.
C25_WatermarkNeverDecreases ==
    [][component'.last_sync_timestamp >= component.last_sync_timestamp]_vars

\* C26: the watermark is advanced, and entities of the shares payload are
\* imported, only in a round whose shares payload carried a header with the
\* db_uuid of the component and a supported protocol version; a body without
\* header leads to neither.
C26_AdvanceNeedsValidHeader ==
    \A t \in Threads :
        (pc[t] = "done" \/ ImportsBy(t, "update_shares") # {}) =>
            /\ updates[t].kind = "dict"
            /\ updates[t].header.kind = "dict"
            /\ ~HeaderProblem(updates[t].header)

\* protocol_version is absent, or its major or minor is absent or is not a JSON integer
MalformedVersion(pv) ==
    \/ pv.kind = "none"
    \/ pv.major.kind # "int"
    \/ pv.minor.kind # "int"

\* C27: for a header with the db_uuid of the component, _validate_header
\* raises InvalidDataExportError, and no other error, whenever
\* protocol_version is absent, its major or minor is absent, or its major or
\* minor is not an integer.
C27_MalformedVersionRejected ==
    \A t \in Threads : \A fn \in {"update_users", "update_shares"} :
        (/\ HeaderChecked(t, fn)
         /\ PayloadOf(t, fn).header.db_uuid = component.uuid
         /\ MalformedVersion(PayloadOf(t, fn).header.protocol_version)) =>
            /\ Rejected(t, fn)
            /\ err[t] = "InvalidDataExportError"

\* positions of the GET requests of the round of t
Gets(t) == {i \in 1..Len(log[t]) : log[t][i].op = "get"}

\* C28: both GETs of a round send as last_sync_timestamp the watermark
\* stored when the round started (nothing when there was no sync before),
\* and the round that follows a failed round starts from, and so sends,
\* that same watermark again.
C28_GetsSendStoredWatermark ==
    [][\A t \in Threads :
          /\ \A i \in {j \in 1..Len(log'[t]) : log'[t][j].op = "get"} :
                log'[t][i].k = before'[t].watermark
          /\ (pc[t] = "failed" /\ pc'[t] = "get_users") =>
                before'[t].watermark = before[t].watermark]_vars

C28_SameWatermarkAfterFailedRound ==
    \E t \in Threads :
        /\ nrounds = 2
        /\ completed = <<>>
        /\ before[t].store # {}
        /\ Cardinality(Gets(t)) = 2
        /\ \A i \in Gets(t) : log[t][i].k = 0

\* positions of the GET requests of the round of t for an endpoint
GetsFor(t, endpoint) == {i \in Gets(t) : log[t][i].coll = endpoint}

\* positions of the POST requests of t
Posts(t) == {i \in 1..Len(log[t]) : log[t][i].op = "post"}

\* C29: a call of get or post that is not refused for a missing address sends
\* exactly one request and sends none again after an error answer or a
\* failure; a round sends at most two GETs, the one for the users first, the
\* one for the shares second, and nothing after the answer to the second.
C29_OneRequestPerCall ==
    \A t \in Threads :
        /\ Cardinality(GetsFor(t, "users")) <= 1
        /\ Cardinality(GetsFor(t, "objects")) <= 1
        /\ Gets(t) = GetsFor(t, "users") \cup GetsFor(t, "objects")
        /\ \A i \in GetsFor(t, "users") : i = 1
        /\ \A j \in GetsFor(t, "objects") : j = 3 /\ GetsFor(t, "users") # {}
        /\ \A i \in Gets(t) \cup Posts(t) :
              /\ i < Len(log[t])
              /\ log[t][i + 1].fn = log[t][i].op
              /\ log[t][i + 1].coll = log[t][i].coll
        /\ \A i \in 1..Len(log[t]) :
              log[t][i].fn \in {"get", "post"} =>
                  i > 1 /\ log[t][i - 1].op = log[t][i].fn
        /\ pc[t] = "get_shares" => Cardinality(Gets(t)) = 1
        /\ pc[t] \in {"run", "done"} => Cardinality(Gets(t)) = 2
        /\ (/\ pc[t] = "failed"
            /\ err[t] \notin {"MissingComponentAddressError",
                              "ComponentNotConfiguredForFederationError"}) =>
              Cardinality(Gets(t)) \in {1, 2}
        /\ (pc[t] = "poked" \/ (pc[t] = "poke_failed" /\ err[t] = "ConnectionError")) =>
              Cardinality(Posts(t)) = 1 /\ Len(log[t]) = 2

C29_NoRetryAfterErrors ==
    /\ pc["t1"] = "failed"
    /\ err["t1"] = "RequestServerError"
    /\ Cardinality(Gets("t1")) = 2
    /\ log["t1"][2].op = "UnauthorizedRequestError"
    /\ pc["t2"] = "poke_failed"
    /\ err["t2"] = "ConnectionError"
    /\ Cardinality(Posts("t2")) = 1

\* thread t is in the location loop of update_shares with a pending location
InLocationLoop(t) ==
    /\ AtImport(t)
    /\ Fn(t) = "update_shares"
    /\ Program(Fn(t))[pos[t]].coll = "locations"

\* positions of the imports of objects by update_shares in the round of t
ObjectImports(t) ==
    {i \in ImportsBy(t, "update_shares") : log[t][i].coll = "objects"}

\* positions of the imports of the location key in the history l
LocationImportsIn(l, key) ==
    {i \in 1..Len(l) : /\ l[i].op = "import"
                       /\ l[i].fn = "update_shares"
                       /\ l[i].coll = "locations"
                       /\ l[i].key = key}

\* every iteration of the location loop removes the selected key from the
\* pending set, adds no key to it, makes it smaller and imports the selected
\* location once
LoopIterationShrinks ==
    \A t \in Threads :
        (InLocationLoop(t) /\ log'[t] # log[t]) =>
            /\ KeyOf(Head(parsed[t]["locations"])) \notin DictKeys(parsed'[t]["locations"])
            /\ DictKeys(parsed'[t]["locations"]) \subseteq DictKeys(parsed[t]["locations"])
            /\ Len(parsed'[t]["locations"]) < Len(parsed[t]["locations"])
            /\ Cardinality(LocationImportsIn(log'[t],
                                             KeyOf(Head(parsed[t]["locations"])))) = 1

\* C30: the location loop of update_shares terminates for every batch that
\* passed the cycle check: every iteration removes the selected key from the
\* finite pending set and adds none, so there is at most one iteration per
\* location; a call that is not over stands at a step it can take; the
\* objects are imported only once the pending set is empty, after every
\* location of the batch.
C30_LocationLoopTerminates ==
    /\ [][LoopIterationShrinks]_vars
    /\ [](\A t \in Threads :
            /\ Len(parsed[t]["locations"]) <= Len(Batch(t))
            /\ Cardinality(LocationImportsIn(log[t], NoKey)) = 0
            /\ \A key \in DictKeys(Batch(t)) :
                  Cardinality(LocationImports(t, key)) <= 1)
    /\ [](\A t \in Threads :
            (pc[t] = "run" /\ Fn(t) = "update_shares") => (pos[t] = 1 \/ AtImport(t)))
    /\ [](\A t \in Threads : ObjectImports(t) # {} => parsed[t]["locations"] = <<>>)
    /\ [](\A t \in Threads :
            pc[t] = "done" =>
                /\ \A key \in DictKeys(Batch(t)) : LocationImports(t, key) # {}
                /\ Cardinality(ObjectImports(t)) = Len(updates[t].data["objects"])
                /\ \A i \in ObjectImports(t) :
                      \A key \in DictKeys(Batch(t)) :
                          \A j \in LocationImports(t, key) : j < i)

C30_ThreeIterationsThenObject ==
    \E t \in Threads :
        /\ pc[t] = "done"
        /\ Len(Batch(t)) = MaxLocs
        /\ \A key \in DictKeys(Batch(t)) : DictGet(Batch(t), key).parent = OutsideKey
        /\ ObjectImports(t) # {}

====
